---- MODULE Spec2Model ----
(***************************************************************************)
(* A model of the document visualisation tool:                             *)
(*   validations.py  validate_structured_info (the field scorer),          *)
(*   data_models.py  ImageMaster / StructuredImageProperty,                *)
(*   app.py          draw_predictions_on_image (the box renderer) and the  *)
(*                   Streamlit script (overall and sample-wise modes).     *)
(*                                                                         *)
(* Python values are modelled as records with a "kind" tag.  A string is a *)
(* sequence of one-character strings.                                      *)
(***************************************************************************)
EXTENDS Integers, Sequences, FiniteSets, TLC

\* ------------------------------------------------------------------ bounds

\* longest string drawn as an extracted or reference value
MaxLen == 4
\* longest string that is also drawn upper-cased and padded with blanks
MaxDecorLen == 2

\* ------------------------------------------------------------ python values

None == [kind |-> "none", s |-> <<>>]
NaN == [kind |-> "nan", s |-> <<>>]
Str(s) == [kind |-> "str", s |-> s]

Letters == {"a", "b"}

SeqsUpTo(S, n) == UNION {[1..k -> S] : k \in 0..n}

\* str.lower() on one character
LowerChar(c) ==
    CASE c = "A" -> "a"
      [] c = "B" -> "b"
      [] OTHER -> c

UpperChar(c) ==
    CASE c = "a" -> "A"
      [] c = "b" -> "B"
      [] OTHER -> c

Lower(s) == [i \in 1..Len(s) |-> LowerChar(s[i])]
Upper(s) == [i \in 1..Len(s) |-> UpperChar(s[i])]
Pad(s) == <<" ">> \o s \o <<" ">>

IsSpace(c) == c = " "

\* str.strip(): drop the leading and the trailing whitespace
RECURSIVE LStrip(_)
LStrip(s) == IF s # <<>> /\ IsSpace(Head(s)) THEN LStrip(Tail(s)) ELSE s

RECURSIVE RStrip(_)
RStrip(s) ==
    IF s # <<>> /\ IsSpace(s[Len(s)]) THEN RStrip(SubSeq(s, 1, Len(s) - 1)) ELSE s

Strip(s) == RStrip(LStrip(s))

\* str(value) for the values that reach the similarity computation
PyStr(v) ==
    CASE v.kind = "str" -> v.s
      [] v.kind = "nan" -> <<"n", "a", "n">>
      [] v.kind = "dict" -> <<"{", "}">>
      [] OTHER -> <<"N", "o", "n", "e">>

\* Normalize without the lower-casing
NormalizeNoLower(v) == Strip(PyStr(v))

\* str(v).strip().lower()
Normalize(v) == Lower(Strip(PyStr(v)))

\* ------------------------------------------------- difflib.SequenceMatcher
\* Strings are indexed from 0 as in Python: element i of a is a[i + 1].
\* isjunk is None and the strings are shorter than 200 characters, so no
\* element is junk or "popular" and the two extension loops of
\* find_longest_match have nothing to add.

\* k = j2len.get(j - 1, 0) + 1: the length of the common run that ends at
\* a[i], b[j] and stays inside a[alo:], b[blo:]
RECURSIVE RunLen(_, _, _, _, _, _)
RunLen(a, b, i, j, alo, blo) ==
    IF i < alo \/ j < blo THEN 0
    ELSE IF a[i + 1] # b[j + 1] THEN 0
    ELSE 1 + RunLen(a, b, i - 1, j - 1, alo, blo)

\* the largest k over the ends (i, j) of the window, 0 when there is none
BestSize(a, b, alo, blo, ends) ==
    LET sizes == {RunLen(a, b, e[1], e[2], alo, blo) : e \in ends} \cup {0}
    IN CHOOSE k \in sizes : \A m \in sizes : m <= k

\* the end (i, j) at which the loops first reach bestsize: i is the outer
\* and j the inner ascending loop, and best is replaced only when
\* k > bestsize
FirstEnd(longest) ==
    CHOOSE e \in longest :
        \A d \in longest : e[1] < d[1] \/ (e[1] = d[1] /\ e[2] <= d[2])

\* <<besti, bestj, bestsize>> of the block of bestsize elements ending at e
BlockEndingAt(e, bestsize) == <<e[1] - bestsize + 1, e[2] - bestsize + 1, bestsize>>

BestBlock(a, b, alo, blo, ends, bestsize) ==
    IF bestsize = 0 THEN <<alo, blo, 0>>
    ELSE BlockEndingAt(
            FirstEnd({e \in ends : RunLen(a, b, e[1], e[2], alo, blo) = bestsize}),
            bestsize)

\* find_longest_match: <<besti, bestj, bestsize>>, the longest block,
\* earliest in a, then earliest in b
FindLongestMatch(a, b, alo, ahi, blo, bhi) ==
    BestBlock(a, b, alo, blo, (alo..(ahi - 1)) \X (blo..(bhi - 1)),
              BestSize(a, b, alo, blo, (alo..(ahi - 1)) \X (blo..(bhi - 1))))

\* get_matching_blocks, summed: the longest block x = <<i, j, k>>, then the
\* blocks to its left and to its right
RECURSIVE MatchingSize(_, _, _, _, _, _)
BlocksAround(a, b, alo, ahi, blo, bhi, x) ==
    IF x[3] = 0 THEN 0
    ELSE x[3]
         + (IF alo < x[1] /\ blo < x[2]
            THEN MatchingSize(a, b, alo, x[1], blo, x[2]) ELSE 0)
         + (IF x[1] + x[3] < ahi /\ x[2] + x[3] < bhi
            THEN MatchingSize(a, b, x[1] + x[3], ahi, x[2] + x[3], bhi) ELSE 0)

MatchingSize(a, b, alo, ahi, blo, bhi) ==
    BlocksAround(a, b, alo, ahi, blo, bhi,
                 FindLongestMatch(a, b, alo, ahi, blo, bhi))

\* matches = sum(triple[-1] for triple in self.get_matching_blocks())
Matches(a, b) == MatchingSize(a, b, 0, Len(a), 0, Len(b))

\* RatioScore rounding to the nearest integer instead of truncating
RatioScoreRounded(a, b) ==
    LET length == Len(a) + Len(b)
    IN IF length = 0 THEN 100
       ELSE (200 * Matches(a, b) + length \div 2) \div length

\* int(ratio() * 100) with ratio() = 2.0 * matches / length, or 1.0 when
\* length is 0.  For lengths up to 40 the double product truncates to the
\* same integer as the exact quotient 200 * matches / length.
RatioScore(a, b) ==
    LET length == Len(a) + Len(b)
    IN IF length = 0 THEN 100 ELSE (200 * Matches(a, b)) \div length

\* ------------------------------------------------ validate_structured_info

Fields ==
    <<"text_quality_score", "courier_partner", "awb_number", "recipient_name",
      "recipient_address", "recipient_signature", "recipient_stamp",
      "delivery_date", "handwritten_notes">>

FieldNames == {Fields[i] : i \in 1..Len(Fields)}

\* A field of StructuredImageProperty: None, a bare scalar, or a dict that
\* may hold "text" and "box_2d".
NoBox == [kind |-> "none", items |-> <<>>]

Absent ==
    [kind |-> "none", s |-> <<>>, has_text |-> FALSE, text |-> None,
     has_box |-> FALSE, box |-> NoBox]

Bare(v) ==
    [kind |-> v.kind, s |-> v.s, has_text |-> FALSE, text |-> None,
     has_box |-> FALSE, box |-> NoBox]

\* the dict {"text": text, "box_2d": box}
TextLabel(text, box) ==
    [kind |-> "dict", s |-> <<>>, has_text |-> TRUE, text |-> text,
     has_box |-> TRUE, box |-> box]

\* the dict {}
EmptyDict ==
    [kind |-> "dict", s |-> <<>>, has_text |-> FALSE, text |-> None,
     has_box |-> FALSE, box |-> NoBox]

\* extracted.get("text") if isinstance(extracted, dict) and "text" in
\* extracted else extracted
ExtractedValue(extracted) ==
    IF extracted.kind = "dict" /\ extracted.has_text
    THEN extracted.text
    ELSE [kind |-> extracted.kind, s |-> extracted.s]

IsNone(v) == v.kind = "none"

\* field_results[field] = {"status": ..., "score": ..., ...}
FieldResult(status, score, extracted_value, reference_value) ==
    [status |-> status, score |-> score,
     extracted_value |-> extracted_value, reference_value |-> reference_value]

\* if score >= threshold: status = "match" else: status = "hallucination"
Classified(score, t, extracted_value, reference_value) ==
    FieldResult(IF score >= t THEN "match" ELSE "hallucination", score,
                extracted_value, reference_value)

Scored(extracted_value, reference_value, t) ==
    IF IsNone(extracted_value) \/ IsNone(reference_value)
    THEN FieldResult("null", 0, extracted_value, reference_value)
    ELSE Classified(RatioScore(Normalize(extracted_value),
                               Normalize(reference_value)),
                    t, extracted_value, reference_value)

\* the body of the loop over the fields
ValidateField(extracted, ref, t) == Scored(ExtractedValue(extracted), ref, t)

\* validate_structured_info(...)["field_results"]; reference_info maps a
\* field it does not hold to None (dict.get)
ValidateStructuredInfo(si, ri, t) ==
    [f \in FieldNames |-> ValidateField(si[f], ri[f], t)]

\* ------------------------------------------------ draw_predictions_on_image

\* a component of box_2d: a number, or a value that is no number ("a", None)
Num(n) == [num |-> TRUE, v |-> n]
NotNum == [num |-> FALSE, v |-> 0]

\* box_2d as a list
BoxList(items) == [kind |-> "list", items |-> items]

colors == <<"red", "green", "blue", "yellow", "purple", "orange", "cyan", "magenta">>

\* scale = 1000
scale == 1000

\* label = f"{field_name}: {text[:15]}{'...' if len(text)>15 else ''}"
LabelChars == 15

\* int(x) of a quotient: truncation towards zero
TruncDiv(n, d) == IF n >= 0 THEN n \div d ELSE -((-n) \div d)

\* int(c / scale * dim).  The components and image sizes drawn below are ones
\* for which the double c / 1000 * dim truncates to the exact quotient.
ScaleCoord(c, dim) == TruncDiv(c * dim, scale)

Min2(x, y) == IF x <= y THEN x ELSE y
Max2(x, y) == IF x >= y THEN x ELSE y

\* OrderPair without the swap
OrderPairNoSwap(p, q) == <<p, q>>

\* if p > q: p, q = q, p
OrderPair(p, q) == IF p > q THEN <<q, p>> ELSE <<p, q>>

\* Clamp without the clamping
ClampNone(x, dim) == x

\* max(0, min(x, dim))
Clamp(x, dim) == Max2(0, Min2(x, dim))

\* abs_x1, abs_y1, abs_x2, abs_y2 after scaling, ordering and clamping
BoxToRect(items, W, H) ==
    LET xs == OrderPair(ScaleCoord(items[1].v, W), ScaleCoord(items[3].v, W))
        ys == OrderPair(ScaleCoord(items[2].v, H), ScaleCoord(items[4].v, H))
    IN <<Clamp(xs[1], W), Clamp(ys[1], H), Clamp(xs[2], W), Clamp(ys[2], H)>>

\* if abs_x1 >= abs_x2 or abs_y1 >= abs_y2: skip
Degenerate(r) == r[1] >= r[3] \/ r[2] >= r[4]

\* if box_2d and isinstance(box_2d, list) and len(box_2d) == 4
BoxAccepted(box) == box.kind = "list" /\ Len(box.items) = 4

\* what the function has done so far: the rectangles drawn on the image, the
\* warnings logged, the colour counter, and whether an exception left it
RenderStart ==
    [drawn |-> <<>>, warnings |-> <<>>, color_index |-> 0,
     raised |-> FALSE, raised_at |-> 0]

\* the body of the loop over structured_info_dict.items(), for field k
DrawField(acc, k, fv, W, H) ==
    LET f == Fields[k]
    IN IF ~(fv.kind = "dict" /\ fv.has_text /\ fv.has_box)
       THEN acc
       ELSE IF ~BoxAccepted(fv.box)
       THEN [acc EXCEPT !.warnings =
                Append(@, [field |-> f, what |-> "missing or invalid box_2d"])]
       ELSE IF \E i \in 1..4 : ~fv.box.items[i].num
       \* box_2d[i] / scale raises TypeError
       THEN [acc EXCEPT !.raised = TRUE, !.raised_at = k]
       ELSE LET r == BoxToRect(fv.box.items, W, H)
                color == colors[(acc.color_index % Len(colors)) + 1]
                text == fv.text
                shown == IF Len(text.s) > LabelChars
                         THEN SubSeq(text.s, 1, LabelChars) ELSE text.s
            IN IF Degenerate(r)
               THEN [acc EXCEPT !.warnings =
                        Append(@, [field |-> f, what |-> "invalid bbox"])]
               ELSE IF text.kind # "str"
               \* the outline is drawn, then text[:15] raises TypeError
               THEN [acc EXCEPT
                        !.drawn = Append(@, [field |-> f, rect |-> r,
                                             outline |-> color, labelled |-> FALSE,
                                             fill |-> color, label |-> <<>>,
                                             dots |-> FALSE]),
                        !.color_index = @ + 1,
                        !.raised = TRUE, !.raised_at = k]
               ELSE [acc EXCEPT
                        !.drawn = Append(@, [field |-> f, rect |-> r,
                                             outline |-> color, labelled |-> TRUE,
                                             fill |-> color, label |-> shown,
                                             dots |-> Len(text.s) > LabelChars]),
                        !.color_index = @ + 1]

\* DrawFrom with a counter that every field advances, drawn or not
RECURSIVE DrawFromCountingAll(_, _, _, _, _)
DrawFromCountingAll(k, acc, si, W, H) ==
    IF k > Len(Fields) \/ acc.raised THEN acc
    ELSE DrawFromCountingAll(
            k + 1,
            [DrawField(acc, k, si[Fields[k]], W, H) EXCEPT !.color_index = k],
            si, W, H)

\* for field_name, field_value in structured_info_dict.items(): ...
RECURSIVE DrawFrom(_, _, _, _, _)
DrawFrom(k, acc, si, W, H) ==
    IF k > Len(Fields) \/ acc.raised THEN acc
    ELSE DrawFrom(k + 1, DrawField(acc, k, si[Fields[k]], W, H), si, W, H)

\* draw_predictions_on_image(image, structured_info) for a record that is
\* not None, on an image of size (W, H)
DrawPredictionsOnImage(size, si) == DrawFrom(1, RenderStart, si, size[1], size[2])

\* ------------------------------------------------------ the Streamlit script

\* what the script puts on the page: st.error, st.warning, st.header,
\* st.subheader, st.dataframe, st.json, st.text, st.image; row is the row
\* index the element names, or -1
El(kind, what, row) == [kind |-> kind, what |-> what, row |-> row]

\* a cell of the JSON column: NaN, a string ImageMaster.model_validate_json
\* raises on, or a document
JsonNaN ==
    [kind |-> "nan", image_url |-> None,
     si_given |-> FALSE, si |-> <<>>, ri_given |-> FALSE, ri |-> <<>>]

JsonMalformed ==
    [kind |-> "malformed", image_url |-> None,
     si_given |-> FALSE, si |-> <<>>, ri_given |-> FALSE, ri |-> <<>>]

\* ImageMaster(image_url, structured_info, reference_info); a record or a
\* mapping that is not given is None
ImageMaster(image_url, si_given, si, ri_given, ri) ==
    [kind |-> "doc", image_url |-> image_url,
     si_given |-> si_given, si |-> si, ri_given |-> ri_given, ri |-> ri]

\* pd.isna(json_string)
IsNaCell(cell) == cell.kind = "nan"

\* if image_master.structured_info and image_master.reference_info
HasBoth(doc) == doc.si_given /\ doc.ri_given

\* the columns the overall statistics report
OverallColumns == {Fields[i] : i \in 1..8}

\* which counter a row adds to for one column: "match", "hallucination",
\* "null", or "none" when the row is skipped (continue) or holds no
\* structured_info or no reference_info
RowBucket(row, column, t) ==
    IF IsNaCell(row.json) THEN "none"
    ELSE IF row.json.kind = "malformed" THEN "none"
    ELSE IF HasBoth(row.json)
         THEN ValidateStructuredInfo(row.json.si, row.json.ri, t)[column].status
         ELSE "none"

\* f"{count / total_count * 100:.2f}%" in hundredths of a percent (no
\* quotient of the datasets drawn lies halfway between two hundredths)
Percentage(count, total_count) ==
    IF total_count = 0 THEN 0
    ELSE (2 * 10000 * count + total_count) \div (2 * total_count)

\* the buckets of the rows for one column, in df.iterrows() order
RECURSIVE RowBuckets(_, _, _)
RowBuckets(rows, column, t) ==
    IF rows = <<>> THEN <<>>
    ELSE <<RowBucket(Head(rows), column, t)>> \o RowBuckets(Tail(rows), column, t)

\* the number of rows that added to counter b
Count(buckets, b) == Cardinality({i \in 1..Len(buckets) : buckets[i] = b})

\* overall_data.append({...})
Entry(total_count, total_match, total_null, hallucination_count) ==
    [total_count |-> total_count,
     total_match |-> total_match,
     total_null |-> total_null,
     hallucination_count |-> hallucination_count,
     match_percentage |-> Percentage(total_match, total_count),
     null_percentage |-> Percentage(total_null, total_count),
     hallucination_percentage |-> Percentage(hallucination_count, total_count)]

Counted(total_count, buckets) ==
    Entry(total_count, Count(buckets, "match"), Count(buckets, "null"),
          Count(buckets, "hallucination"))

\* one entry of overall_data
OverallEntry(rows, column, t) == Counted(Len(rows), RowBuckets(rows, column, t))

\* overall_data
OverallData(rows, t) == [c \in OverallColumns |-> OverallEntry(rows, c, t)]

NoOverallData == <<>>

\* the error of the outermost handler: st.error(f"An error occurred
\* processing the CSV file: {e}")
CsvError == El("error", "error_processing_csv_file", -1)

\* what a run of one mode leaves: the page elements and the image source
ModeOut(ui, img_src, overall_data) ==
    [ui |-> ui, img_src |-> img_src, overall_data |-> overall_data]

RunOverall(rows, t) ==
    ModeOut(<<El("subheader", "overall_statistics", -1),
              El("table", "overall", -1)>>,
            None, OverallData(rows, t))

\* the image source: image_url of the JSON, else the image source column
HasImageUrl(doc) == doc.image_url.kind = "str"

HasColumnSource(has_img, row) == has_img /\ row.img.kind = "str"

\* loading the image and drawing on it; outcome is what the network or the
\* file system does
ShowImage(doc, src, outcome, size) ==
    LET head == <<El("subheader", "image_with_predictions", -1)>>
    IN CASE outcome = "request_error" ->
                head \o <<El("error", "error_fetching_image", -1)>>
         [] outcome = "bad_content_type" ->
                head \o <<El("error", "not_an_image", -1)>>
         [] outcome = "not_found" ->
                head \o <<El("error", "local_file_not_found", -1)>>
         [] outcome = "other_error" ->
                head \o <<El("error", "unexpected_image_error", -1)>>
         [] OTHER ->
                IF doc.si_given /\ DrawPredictionsOnImage(size, doc.si).raised
                THEN head \o <<El("error", "unexpected_image_error", -1)>>
                ELSE head \o <<El("image", "original", -1),
                               El("image", "annotated", -1)>>

\* str(img_src).startswith(('http://', 'https://'))
StartsWithHttp(s) ==
    \/ Len(s) >= 7 /\ SubSeq(s, 1, 7) = <<"h", "t", "t", "p", ":", "/", "/">>
    \/ Len(s) >= 8 /\ SubSeq(s, 1, 8) = <<"h", "t", "t", "p", "s", ":", "/", "/">>

\* the outcomes of loading src: a URL is fetched, a path is opened
LoadOutcomes(src) ==
    IF StartsWithHttp(src.s)
    THEN {"ok", "request_error", "bad_content_type", "other_error"}
    ELSE {"ok", "not_found", "other_error"}

\* the sample-wise branch for the selected row.  The two handlers that
\* format `selected_index`, a name the script never binds, raise NameError,
\* which the outermost handler reports.
RunSampleWise(has_img, row, index, t, outcome, size) ==
    LET doc == row.json
        results == <<El("subheader", "validation_results", -1),
                     El("table", "validation", -1)>>
        extracted == <<El("subheader", "extracted_information", -1),
                       El("json", "structured_info", -1)>>
        parsed == (IF HasBoth(doc) THEN results ELSE <<>>) \o extracted
    IN IF IsNaCell(doc)
       THEN ModeOut(<<El("error", "json_empty_or_nan", index)>>, None, NoOverallData)
       ELSE IF doc.kind = "malformed"
       THEN ModeOut(<<CsvError>>, None, NoOverallData)
       ELSE IF HasImageUrl(doc)
       THEN ModeOut(parsed \o ShowImage(doc, doc.image_url, outcome, size),
                    doc.image_url, NoOverallData)
       ELSE IF HasColumnSource(has_img, row)
       THEN ModeOut(parsed \o ShowImage(doc, row.img, outcome, size),
                    row.img, NoOverallData)
       ELSE ModeOut(parsed \o <<CsvError>>, None, NoOverallData)

\* the data frame of the uploaded file; has_json and has_img say whether the
\* JSON column and the image source column are among df.columns
NoData == [loaded |-> FALSE, rows |-> <<>>, has_json |-> FALSE, has_img |-> FALSE]

DataFrame(rows, has_json, has_img) ==
    [loaded |-> TRUE, rows |-> rows, has_json |-> has_json, has_img |-> has_img]

\* the selectbox on the page: the options and index it was built with (its
\* identity) and the value it holds; NoWidget when it is not on the page
NoWidget == [n |-> -1, index |-> -1, value |-> -1]

\* st.sidebar.radio(..., index=0) and st.sidebar.slider(..., 0, 100, 50, 5)
ModeDefault == "Sample-wise"
SliderDefault == 50

\* the state a run leaves and the page it shows
RunOut(index, widget, mode, t, out) ==
    [selected_index |-> index, selectbox |-> widget, benchmarking_mode |-> mode,
     validation_threshold |-> t, ui |-> out.ui, img_src |-> out.img_src,
     overall_data |-> out.overall_data]

\* the page of a mode below what the run showed before it
After(head, out) == ModeOut(head \o out.ui, out.img_src, out.overall_data)

\* st.sidebar.selectbox("Choose a row index:", df.index, index): a widget
\* built with the same options and index as the one on the page keeps that
\* widget's value (choice when the user has just picked one, -1 otherwise);
\* any other is a new widget and returns df.index[index]
SelectboxValue(n, index, widget, choice) ==
    IF widget.n = n /\ widget.index = index
    THEN IF choice # -1 THEN choice ELSE widget.value
    ELSE index

\* one run of the script with a file uploaded: click is "previous", "next"
\* or "none", choice the row just picked in the selectbox or -1
Script(d, index0, widget, click, choice, mode, t, outcome, size) ==
    LET n == Len(d.rows)
        loaded == <<El("success", "loaded_rows", -1)>>
        warned == IF d.has_img THEN loaded
                  ELSE loaded \o <<El("warning", "image_source_column_not_found", -1)>>
        index1 == CASE click = "previous" -> Max2(0, index0 - 1)
                    [] click = "next" -> Min2(n - 1, index0 + 1)
                    [] OTHER -> index0
    IN IF ~d.has_json
       \* st.error(...); st.stop()
       THEN RunOut(index0, NoWidget, ModeDefault, SliderDefault,
                   ModeOut(loaded \o <<El("error", "json_column_not_found", -1)>>,
                           None, NoOverallData))
       ELSE IF ~(0 <= index1 /\ index1 < n)
       \* the selectbox raises on an index outside its options
       THEN RunOut(index1, NoWidget, ModeDefault, SliderDefault,
                   ModeOut(warned \o <<CsvError>>, None, NoOverallData))
       ELSE LET index2 == SelectboxValue(n, index1, widget, choice)
                shown == [n |-> n, index |-> index1, value |-> index2]
                head == warned \o <<El("header", "displaying_row", index2)>>
            IN RunOut(index2, shown, mode, t,
                      After(head,
                            IF mode = "Overall"
                            THEN RunOverall(d.rows, t)
                            ELSE RunSampleWise(d.has_img, d.rows[index2 + 1],
                                               index2, t, outcome, size)))

\* ------------------------------------------------------------------- state

VARIABLES
    structured_info,        \* validate_structured_info: the extracted record
    reference_info,         \* validate_structured_info: the reference mapping
    validation_threshold,   \* the "Fuzzy Match Threshold (%)" slider
    field_results,          \* what validate_structured_info returned
    image_size,             \* draw_predictions_on_image: image.size
    render_info,            \* draw_predictions_on_image: structured_info
    render_out,             \* draw_predictions_on_image: what it did
    df,                     \* the uploaded CSV file as a data frame
    selected_index,         \* st.session_state.selected_index
    selectbox,              \* the "Choose a row index:" widget on the page
    benchmarking_mode,      \* the "Select Benchmarking Mode:" radio
    ui,                     \* the elements the last run put on the page
    img_src,                \* the image source the last run resolved
    overall_data            \* the overall statistics of the last run

scoreVars == <<structured_info, reference_info, field_results>>
renderVars == <<image_size, render_info, render_out>>
appVars == <<df, selected_index, selectbox, benchmarking_mode, ui, img_src, overall_data>>

vars == <<scoreVars, validation_threshold, renderVars, appVars>>

\* values of the variables a specification does not use
IdleScore ==
    /\ structured_info = <<>>
    /\ reference_info = <<>>
    /\ field_results = <<>>

IdleRender ==
    /\ image_size = <<0, 0>>
    /\ render_info = <<>>
    /\ render_out = <<>>

IdleApp ==
    /\ df = <<>>
    /\ selected_index = 0
    /\ selectbox = <<>>
    /\ benchmarking_mode = "Sample-wise"
    /\ ui = <<>>
    /\ img_src = None
    /\ overall_data = <<>>

\* ------------------------------------------------------ the field scorer

LowerStrings == SeqsUpTo(Letters, MaxLen)

DecorStrings == SeqsUpTo(Letters, MaxDecorLen)

\* the strings drawn as values: lower-case ones, and short ones upper-cased
\* or padded with blanks
RawStrings ==
    LowerStrings \cup {Upper(s) : s \in DecorStrings}
                 \cup {Pad(s) : s \in DecorStrings}

Scalars == {None, NaN} \cup {Str(s) : s \in RawStrings}

\* slider positions (0 to 100 in steps of 5)
Thresholds == {0, 50, 75, 100}

\* a record whose text_quality_score is the scalar v and whose other fields
\* are {"text": v, "box_2d": None}
Located(v) ==
    [f \in FieldNames |->
        IF f = "text_quality_score" THEN Bare(v) ELSE TextLabel(v, NoBox)]

\* a record with every field None
AllAbsent == [f \in FieldNames |-> Absent]

\* a record whose dict fields are {} (no "text" key)
Textless ==
    [f \in FieldNames |->
        IF f = "text_quality_score" THEN Absent ELSE EmptyDict]

StructuredInfos == {Located(v) : v \in Scalars} \cup {AllAbsent, Textless}

ReferenceInfos == {[f \in FieldNames |-> r] : r \in Scalars}

Pending ==
    [status |-> "pending", score |-> 0,
     extracted_value |-> None, reference_value |-> None]

NotValidated == [f \in FieldNames |-> Pending]

validated == field_results # NotValidated

InitScore ==
    /\ structured_info \in StructuredInfos
    /\ reference_info \in ReferenceInfos
    /\ validation_threshold \in Thresholds
    /\ field_results = NotValidated
    /\ IdleRender
    /\ IdleApp

\* validation_results = validate_structured_info(structured_info,
\*                          reference_info, validation_threshold)
Validate ==
    /\ ~validated
    /\ field_results' = ValidateStructuredInfo(structured_info, reference_info,
                                               validation_threshold)
    /\ UNCHANGED <<structured_info, reference_info, validation_threshold>>
    /\ UNCHANGED <<renderVars, appVars>>

NextScore == Validate

SpecScore == InitScore /\ [][NextScore]_vars

\* ------------------------------------------------------- the box renderer

\* box_2d components: inside the 0-1000 space, on its edges, and outside it
Coords == {-100, 0, 250, 500, 1000, 1200}

ImageSizes == {<<1000, 1000>>, <<640, 480>>, <<1, 1>>}

Boxes4 ==
    {BoxList(<<Num(a), Num(b), Num(c), Num(d)>>) :
        a \in Coords, b \in Coords, c \in Coords, d \in Coords}

ShortText == Str(<<"a", "b">>)

\* a text of LabelChars + 1 characters
LongText == Str([i \in 1..(LabelChars + 1) |-> "a"])

\* the dict {"text": text} (no "box_2d" key)
TextOnly(text) ==
    [kind |-> "dict", s |-> <<>>, has_text |-> TRUE, text |-> text,
     has_box |-> FALSE, box |-> NoBox]

GoodBox == BoxList(<<Num(0), Num(0), Num(500), Num(500)>>)

\* a record with one located field
SingleBox(box) ==
    [f \in FieldNames |->
        IF f = "courier_partner" THEN TextLabel(ShortText, box) ELSE Absent]

\* the shapes a field takes in the mixed records
FieldShapes ==
    {Absent, EmptyDict, TextOnly(ShortText),
     TextLabel(ShortText, NoBox),
     TextLabel(ShortText, BoxList(<<Num(0), Num(0), Num(500)>>)),
     TextLabel(ShortText, BoxList(<<NotNum, Num(0), Num(500), Num(500)>>)),
     TextLabel(ShortText, BoxList(<<Num(500), Num(500), Num(500), Num(500)>>)),
     TextLabel(ShortText, GoodBox),
     TextLabel(LongText, GoodBox),
     TextLabel(None, GoodBox)}

\* records with three fields of any shape: the first, a middle and the last
\* one of the record
Mixed(p, q, r) ==
    [f \in FieldNames |->
        CASE f = "text_quality_score" -> p
          [] f = "awb_number" -> q
          [] f = "handwritten_notes" -> r
          [] OTHER -> Absent]

\* the shapes of a field that draws no box: no value, no box_2d, a box_2d of
\* three components, a box_2d without an area
SkippedShapes ==
    {Absent,
     TextLabel(ShortText, NoBox),
     TextLabel(ShortText, BoxList(<<Num(0), Num(0), Num(500)>>)),
     TextLabel(ShortText, BoxList(<<Num(500), Num(500), Num(500), Num(500)>>))}

\* records whose fields in S are located by a good box and whose other fields
\* all have the shape skip (text_quality_score is Optional[Any]: it takes a
\* {text, box_2d} dict as the other eight fields do)
Located9(S, skip) ==
    [f \in FieldNames |-> IF f \in S THEN TextLabel(ShortText, GoodBox) ELSE skip]

RenderInfos ==
    {SingleBox(b) : b \in Boxes4}
    \cup {Mixed(p, q, r) : p \in FieldShapes, q \in FieldShapes, r \in FieldShapes}
    \cup {Located9(S, skip) : S \in SUBSET FieldNames, skip \in SkippedShapes}

NotRendered ==
    [drawn |-> <<>>, warnings |-> <<>>, color_index |-> -1,
     raised |-> FALSE, raised_at |-> 0]

rendered == render_out # NotRendered

InitRender ==
    /\ image_size \in ImageSizes
    /\ render_info \in RenderInfos
    /\ render_out = NotRendered
    /\ IdleScore
    /\ validation_threshold = 0
    /\ IdleApp

\* annotated_image = draw_predictions_on_image(image.copy(), structured_info)
Render ==
    /\ ~rendered
    /\ render_out' = DrawPredictionsOnImage(image_size, render_info)
    /\ UNCHANGED <<image_size, render_info>>
    /\ UNCHANGED <<scoreVars, validation_threshold, appVars>>

NextRender == Render

SpecRender == InitRender /\ [][NextRender]_vars

\* ------------------------------------------------------------ the app

\* the most rows of an uploaded file
MaxRows == 2

Url == Str(<<"h", "t", "t", "p", ":", "/", "/", "x">>)
Path == Str(<<"x", ".", "p", "n", "g">>)

\* an extracted record with a scalar score, two located fields and a field
\* without a box
SampleInfo ==
    [f \in FieldNames |->
        CASE f = "text_quality_score" -> Bare(Str(<<"a">>))
          [] f = "courier_partner" -> TextLabel(Str(<<"a", "b">>), GoodBox)
          [] f = "awb_number" ->
                TextLabel(Str(<<"a", "b">>),
                          BoxList(<<Num(1000), Num(0), Num(500), Num(1000)>>))
          [] f = "recipient_name" -> TextLabel(Str(<<"b">>), NoBox)
          [] OTHER -> Absent]

\* the same record with a box_2d component that is no number
BadBoxInfo ==
    [SampleInfo EXCEPT !["courier_partner"] =
        TextLabel(Str(<<"a", "b">>),
                  BoxList(<<NotNum, Num(0), Num(500), Num(500)>>))]

\* reference values: equal, equal up to case, similar, different, missing
SampleReference ==
    [f \in FieldNames |->
        CASE f = "text_quality_score" -> Str(<<"a">>)
          [] f = "courier_partner" -> Str(<<"A", "B">>)
          [] f = "awb_number" -> Str(<<"b">>)
          [] f = "recipient_name" -> Str(<<"a">>)
          [] OTHER -> None]

Row(json, img) == [json |-> json, img |-> img]

Given(image_url) == ImageMaster(image_url, TRUE, SampleInfo, TRUE, SampleReference)

\* rows of a file with an image source column
RowsColumn ==
    {Row(JsonNaN, Path), Row(JsonMalformed, Path),
     Row(Given(Url), None), Row(Given(None), Path), Row(Given(None), None),
     Row(ImageMaster(None, TRUE, SampleInfo, FALSE, <<>>), Path),
     Row(ImageMaster(Url, FALSE, <<>>, TRUE, SampleReference), None)}

\* rows of a file without an image source column
RowsNoColumn ==
    {Row(JsonNaN, None), Row(Given(Url), None), Row(Given(None), None),
     Row(ImageMaster(Url, TRUE, BadBoxInfo, TRUE, SampleReference), None)}

RowSeqs(S, n) == UNION {[1..k -> S] : k \in 1..n}

\* the files uploaded: up to MaxRows rows with an image source column, one
\* row without it, and a file without the JSON column
DataFrames ==
    {DataFrame(rows, TRUE, TRUE) : rows \in RowSeqs(RowsColumn, MaxRows)}
    \cup {DataFrame(rows, TRUE, FALSE) : rows \in RowSeqs(RowsNoColumn, 1)}
    \cup {DataFrame(<<Row(Given(Url), None)>>, FALSE, FALSE)}

AppThresholds == {SliderDefault, 100}

Modes == {"Sample-wise", "Overall"}

Clicks == {"previous", "next"}

AppImageSize == <<1000, 1000>>

\* the outcomes a run can meet: those of loading the image source it
\* resolved, or "ok" when it loads none; r is the run when loading succeeds
FittingOutcomes(r) ==
    IF r.img_src.kind = "str" THEN LoadOutcomes(r.img_src) ELSE {"ok"}

\* the script reruns and leaves r
Rerun(r) ==
    /\ selected_index' = r.selected_index
    /\ selectbox' = r.selectbox
    /\ benchmarking_mode' = r.benchmarking_mode
    /\ validation_threshold' = r.validation_threshold
    /\ ui' = r.ui
    /\ img_src' = r.img_src
    /\ overall_data' = r.overall_data
    /\ UNCHANGED <<scoreVars, renderVars>>

InitApp ==
    /\ df = NoData
    /\ selected_index = 0
    /\ selectbox = NoWidget
    /\ benchmarking_mode = ModeDefault
    /\ validation_threshold = SliderDefault
    /\ ui = <<El("info", "please_upload", -1)>>
    /\ img_src = None
    /\ overall_data = NoOverallData
    /\ IdleScore
    /\ IdleRender

\* the script reruns on the data frame d; ok is the run when loading the
\* image succeeds, and the network or file system decides how it ends
RunWith(d, ok, click, choice, mode, t) ==
    \E outcome \in FittingOutcomes(ok) :
        /\ df' = d
        /\ Rerun(IF outcome = "ok" THEN ok
                 ELSE Script(d, selected_index, selectbox, click, choice, mode, t,
                             outcome, AppImageSize))

\* a rerun of the script on the data frame d after one interaction
Run(d, click, choice, mode, t) ==
    RunWith(d,
            Script(d, selected_index, selectbox, click, choice, mode, t,
                   "ok", AppImageSize),
            click, choice, mode, t)

\* the user uploads a CSV file
Upload ==
    \E d \in DataFrames :
        Run(d, "none", -1, benchmarking_mode, validation_threshold)

\* the user clicks "Previous" or "Next"
Click ==
    /\ df.loaded
    /\ df.has_json
    /\ \E click \in Clicks :
        Run(df, click, -1, benchmarking_mode, validation_threshold)

\* the user picks another row in the selectbox
SelectRow ==
    /\ selectbox # NoWidget
    /\ \E choice \in 0..(Len(df.rows) - 1) :
        /\ choice # selectbox.value
        /\ Run(df, "none", choice, benchmarking_mode, validation_threshold)

\* the user switches the benchmarking mode
SetMode ==
    /\ selectbox # NoWidget
    /\ \E mode \in Modes :
        /\ mode # benchmarking_mode
        /\ Run(df, "none", -1, mode, validation_threshold)

\* the user moves the threshold slider
SetThreshold ==
    /\ selectbox # NoWidget
    /\ \E t \in AppThresholds :
        /\ t # validation_threshold
        /\ Run(df, "none", -1, benchmarking_mode, t)

NextApp == Upload \/ Click \/ SelectRow \/ SetMode \/ SetThreshold

SpecApp == InitApp /\ [][NextApp]_vars

\* ------------------------------------------------- claims: the field scorer

\* the value a field of the record resolves to, and its reference value
ExtractedOf(f) == ExtractedValue(structured_info[f])
ReferenceOf(f) == reference_info[f]

\* absent in the sense of the specification: None or NaN
IsAbsentValue(v) == v.kind \in {"none", "nan"}

BothGiven(f) == ~IsNone(ExtractedOf(f)) /\ ~IsNone(ReferenceOf(f))

\* C1: for every field and threshold the status is null with score 0 if and
\* only if the extracted or the reference value is absent (None or NaN);
\* when both are present the status is match or hallucination.
C1_NullIffAbsent ==
    validated =>
        \A f \in FieldNames :
            LET r == field_results[f]
                absent == IsAbsentValue(ExtractedOf(f))
                          \/ IsAbsentValue(ReferenceOf(f))
            IN /\ (r.status = "null" /\ r.score = 0) <=> absent
               /\ ~absent => r.status \in {"match", "hallucination"}

\* C1, with absent read as None only: what the code does.
C1_NullIffNone ==
    validated =>
        \A f \in FieldNames :
            LET r == field_results[f]
            IN /\ (r.status = "null" /\ r.score = 0) <=> ~BothGiven(f)
               /\ BothGiven(f) => r.status \in {"match", "hallucination"}

\* C2: when both values are present the score is the integer in 0..100 that
\* is the floor of 100 times the similarity ratio 2 * matches / length (100
\* when both strings are empty), and the status is match exactly when
\* score >= threshold and hallucination otherwise.
C2_ScoreAndStatus ==
    validated =>
        \A f \in FieldNames :
            LET r == field_results[f]
                a == Normalize(ExtractedOf(f))
                b == Normalize(ReferenceOf(f))
                length == Len(a) + Len(b)
                m == Matches(a, b)
            IN BothGiven(f) =>
                /\ r.score \in 0..100
                /\ length = 0 => r.score = 100
                /\ length > 0 => /\ r.score * length <= 200 * m
                                 /\ 200 * m < (r.score + 1) * length
                /\ r.status = "match" <=> r.score >= validation_threshold
                /\ r.status = "hallucination" <=> r.score < validation_threshold

\* C2 witness: a ratio that is no whole percentage was truncated, and the
\* truncated score fell below the threshold.
C2_Witness ==
    /\ validated
    /\ \E f \in FieldNames :
        LET a == Normalize(ExtractedOf(f))
            b == Normalize(ReferenceOf(f))
        IN /\ BothGiven(f)
           /\ Len(a) + Len(b) > 0
           /\ (200 * Matches(a, b)) % (Len(a) + Len(b)) # 0
           /\ field_results[f].score = 66
           /\ validation_threshold = 75
           /\ field_results[f].status = "hallucination"

\* C3: scoring extracted = a against reference = b gives the same score and
\* status as scoring extracted = b against reference = a.
C3_Symmetric ==
    validated =>
        \A f \in FieldNames :
            BothGiven(f) =>
                LET swapped == ValidateField(Bare(ReferenceOf(f)), ExtractedOf(f),
                                             validation_threshold)
                IN /\ swapped.score = field_results[f].score
                   /\ swapped.status = field_results[f].status

\* lower-casing and stripping, stated for the claim on its own
C4_Fold(c) ==
    IF c \in {"A", "a"} THEN "a" ELSE IF c \in {"B", "b"} THEN "b" ELSE c

C4_Canon(s) ==
    LET keep == {i \in 1..Len(s) : s[i] # " "}
    IN IF keep = {} THEN <<>>
       ELSE LET lo == CHOOSE i \in keep : \A j \in keep : i <= j
                hi == CHOOSE i \in keep : \A j \in keep : j <= i
            IN [i \in 1..(hi - lo + 1) |-> C4_Fold(s[lo + i - 1])]

\* C4: when the two values are equal after stripping surrounding whitespace
\* and lower-casing, the score is 100 and the status is match (the threshold
\* is at most 100).
C4_EqualNormalizedMatch ==
    validated =>
        \A f \in FieldNames :
            (/\ BothGiven(f)
             /\ C4_Canon(PyStr(ExtractedOf(f))) = C4_Canon(PyStr(ReferenceOf(f))))
            => /\ field_results[f].score = 100
               /\ field_results[f].status = "match"

\* C4 witness: "AB" against "ab" at threshold 100 is a match with score 100.
C4_Witness ==
    /\ validated
    /\ validation_threshold = 100
    /\ \E f \in FieldNames :
        /\ ExtractedOf(f) = Str(<<"A", "B">>)
        /\ ReferenceOf(f) = Str(<<"a", "b">>)
        /\ field_results[f].score = 100
        /\ field_results[f].status = "match"

\* ------------------------------------------------- claims: the box renderer

W == image_size[1]
H == image_size[2]

\* field k of the record is a {text, box_2d} dict whose box_2d is a list of
\* four numbers
HasNumericBox(k) ==
    LET fv == render_info[Fields[k]]
    IN /\ fv.kind = "dict" /\ fv.has_text /\ fv.has_box
       /\ fv.box.kind = "list" /\ Len(fv.box.items) = 4
       /\ \A i \in 1..4 : fv.box.items[i].num

BoxOf(k) == [i \in 1..4 |-> render_info[Fields[k]].box.items[i].v]

\* the loop reached field k (no earlier field raised)
Processed(k) == render_out.raised_at = 0 \/ k <= render_out.raised_at

DrawnOf(k) ==
    {i \in 1..Len(render_out.drawn) : render_out.drawn[i].field = Fields[k]}

DroppedOf(k) ==
    {i \in 1..Len(render_out.warnings) :
        /\ render_out.warnings[i].field = Fields[k]
        /\ render_out.warnings[i].what = "invalid bbox"}

\* C5: for every 4-component box and image size, either the box is dropped
\* or the rectangle drawn satisfies 0 <= x1 <= x2 <= W and 0 <= y1 <= y2 <= H;
\* a box with x1 >= x2 or y1 >= y2 after clamping is never drawn.
C5_DrawnInsideOrDropped ==
    rendered =>
        /\ \A i \in 1..Len(render_out.drawn) :
                LET r == render_out.drawn[i].rect
                IN /\ 0 <= r[1] /\ r[1] < r[3] /\ r[3] <= W
                   /\ 0 <= r[2] /\ r[2] < r[4] /\ r[4] <= H
        /\ \A k \in 1..Len(Fields) :
                (HasNumericBox(k) /\ Processed(k)) =>
                    \/ Cardinality(DrawnOf(k)) = 1 /\ DroppedOf(k) = {}
                    \/ DrawnOf(k) = {} /\ Cardinality(DroppedOf(k)) = 1

\* C5 witness: a reversed box that reaches outside the 0-1000 space on every
\* side is drawn clamped to the whole image.
C5_Witness ==
    /\ rendered
    /\ image_size = <<640, 480>>
    /\ render_info = SingleBox(BoxList(<<Num(1200), Num(-100), Num(-100), Num(1200)>>))
    /\ Len(render_out.drawn) = 1
    /\ render_out.drawn[1].rect = <<0, 0, 640, 480>>

\* the rescaled and ordered rectangle of a box inside the 0-1000 space
C6_Rescaled(b) ==
    LET x1 == (b[1] * W) \div 1000
        y1 == (b[2] * H) \div 1000
        x2 == (b[3] * W) \div 1000
        y2 == (b[4] * H) \div 1000
    IN <<Min2(x1, x2), Min2(y1, y2), Max2(x1, x2), Max2(y1, y2)>>

C6_DrawsOnly(box, rect) ==
    (rendered /\ image_size = <<1000, 1000>> /\ render_info = SingleBox(box))
    => /\ Len(render_out.drawn) = 1
       /\ render_out.drawn[1].rect = rect

\* C6: the rectangle drawn for box_2d = [x1, y1, x2, y2] inside the 0-1000
\* space is the box rescaled positionally (components 0 and 2 by W, 1 and 3
\* by H, truncated) with each axis pair in ascending order; [0,0,500,500] on
\* a 1000x1000 image draws (0,0,500,500), and [1000,0,500,1000] draws
\* (500,0,1000,1000), as [500,0,1000,1000] does.
C6_PositionalRescale ==
    /\ rendered =>
        \A k \in 1..Len(Fields) :
            (/\ HasNumericBox(k) /\ Processed(k)
             /\ \A i \in 1..4 : BoxOf(k)[i] \in 0..1000)
            => LET e == C6_Rescaled(BoxOf(k))
               IN IF e[1] < e[3] /\ e[2] < e[4]
                  THEN \E i \in DrawnOf(k) : render_out.drawn[i].rect = e
                  ELSE DrawnOf(k) = {}
    /\ C6_DrawsOnly(BoxList(<<Num(0), Num(0), Num(500), Num(500)>>),
                    <<0, 0, 500, 500>>)
    /\ C6_DrawsOnly(BoxList(<<Num(1000), Num(0), Num(500), Num(1000)>>),
                    <<500, 0, 1000, 1000>>)
    /\ C6_DrawsOnly(BoxList(<<Num(500), Num(0), Num(1000), Num(1000)>>),
                    <<500, 0, 1000, 1000>>)

\* C6 witness: the reversed box [1000,0,500,1000] was drawn on a 1000x1000
\* image as (500,0,1000,1000).
C6_Witness ==
    /\ rendered
    /\ image_size = <<1000, 1000>>
    /\ render_info = SingleBox(BoxList(<<Num(1000), Num(0), Num(500), Num(1000)>>))
    /\ Len(render_out.drawn) = 1
    /\ render_out.drawn[1].rect = <<500, 0, 1000, 1000>>

\* field k has a valid box: four numbers that leave a rectangle with an area
HasValidBox(k) ==
    /\ HasNumericBox(k)
    /\ ~Degenerate(BoxToRect(render_info[Fields[k]].box.items, W, H))

\* C7: a field whose box_2d is missing, has not exactly 4 numeric components
\* or is degenerate is skipped on its own: the render of every record runs
\* to completion without raising, and every field with a valid box is drawn.
C7_RenderNeverAborts ==
    rendered =>
        /\ ~render_out.raised
        /\ \A k \in 1..Len(Fields) : HasValidBox(k) => DrawnOf(k) # {}

\* the record holds no box_2d component that is not a number and no located
\* text that is not a string
C7_NumbersAndStrings ==
    \A k \in 1..Len(Fields) :
        LET fv == render_info[Fields[k]]
        IN (fv.kind = "dict" /\ fv.has_text /\ fv.has_box /\ BoxAccepted(fv.box))
           => /\ \A i \in 1..4 : fv.box.items[i].num
              /\ fv.text.kind = "str"

\* C7 on the records of C7_NumbersAndStrings: what the code does.
C7_SkipsMissingArityDegenerate ==
    (rendered /\ C7_NumbersAndStrings) =>
        /\ ~render_out.raised
        /\ \A k \in 1..Len(Fields) : HasValidBox(k) => DrawnOf(k) # {}

\* the number of fields before field k that have a valid box
ValidBefore(k) == Cardinality({j \in 1..(k - 1) : HasValidBox(j)})

\* C11: within one render the k-th box drawn (k from 0) is outlined in palette
\* colour k mod 8, where k counts the fields with a valid box before it; a
\* field without a box, with an invalid box or with a degenerate box draws
\* nothing and does not advance the counter; the label background of a box
\* has the colour of its outline.
C11_PaletteByDrawnCount ==
    rendered =>
        /\ \A k \in 1..Len(Fields) :
                (HasValidBox(k) /\ Processed(k)) =>
                    /\ DrawnOf(k) = {ValidBefore(k) + 1}
                    /\ render_out.drawn[ValidBefore(k) + 1].outline =
                            colors[(ValidBefore(k) % 8) + 1]
        /\ \A k \in 1..Len(Fields) : ~HasValidBox(k) => DrawnOf(k) = {}
        /\ render_out.color_index = Len(render_out.drawn)
        /\ \A i \in 1..Len(render_out.drawn) :
                render_out.drawn[i].labelled =>
                    render_out.drawn[i].fill = render_out.drawn[i].outline

\* C11 witness: all nine fields were drawn; the eighth box is magenta and the
\* ninth wraps around to red, outline and label background alike.
C11_Witness ==
    /\ rendered
    /\ Len(render_out.drawn) = 9
    /\ render_out.drawn[8].outline = "magenta"
    /\ render_out.drawn[9].outline = "red"
    /\ render_out.drawn[9].labelled
    /\ render_out.drawn[9].fill = "red"

\* a render in which a skipped field lies between two drawn ones
C11_SkippedBetween ==
    /\ rendered
    /\ \E j, k, l \in 1..Len(Fields) :
            /\ j < k /\ k < l
            /\ HasValidBox(j) /\ ~HasValidBox(k) /\ HasValidBox(l)
            /\ Processed(l)
            /\ render_info[Fields[k]] # Absent

\* --------------------------------------------------------- claims: the app

Shows(kind, what) == \E i \in 1..Len(ui) : ui[i].kind = kind /\ ui[i].what = what

ShowsKind(kind) == \E i \in 1..Len(ui) : ui[i].kind = kind

\* the last run reached the overall statistics
OverallShown == benchmarking_mode = "Overall" /\ Shows("table", "overall")

\* the last run reached the sample-wise branch for the row selected_index
SampleWiseShown ==
    /\ benchmarking_mode = "Sample-wise"
    /\ \E i \in 1..Len(ui) :
        ui[i] = El("header", "displaying_row", selected_index)

SelectedRow == df.rows[selected_index + 1]

\* C8: in overall-statistics mode, for every reported field and dataset, the
\* match, null and hallucination counts add up to the total count and the
\* three percentages sum to 100% within the formatting tolerance, also when
\* rows are empty, fail to parse or lack structured_info or reference_info.
C8_BucketsAddUp ==
    OverallShown =>
        \A c \in OverallColumns :
            LET e == overall_data[c]
                sum == e.match_percentage + e.null_percentage
                       + e.hallucination_percentage
            IN /\ e.total_match + e.total_null + e.hallucination_count = e.total_count
               /\ 10000 - 2 <= sum /\ sum <= 10000 + 2

\* every row of the data frame parses and holds both records
C8_AllRowsScored ==
    \A i \in 1..Len(df.rows) : df.rows[i].json.kind = "doc" /\ HasBoth(df.rows[i].json)

\* C8 on the datasets of C8_AllRowsScored: what the code does.
C8_BucketsAddUpWhenScored ==
    (OverallShown /\ C8_AllRowsScored) =>
        \A c \in OverallColumns :
            LET e == overall_data[c]
            IN e.total_match + e.total_null + e.hallucination_count = e.total_count

\* C9: in per-sample mode, when the JSON of the selected row is missing or
\* malformed, an error names the row index, with a truncated preview of the
\* raw content (of a malformed cell: a missing one has no content), and no
\* validation table and no image panel is rendered.
C9_ParseErrorReported ==
    (SampleWiseShown /\ SelectedRow.json.kind \in {"nan", "malformed"}) =>
        /\ \E i \in 1..Len(ui) : ui[i].kind = "error" /\ ui[i].row = selected_index
        /\ SelectedRow.json.kind = "malformed" => ShowsKind("text")
        /\ ~ShowsKind("table")
        /\ ~ShowsKind("image")

\* C9, the halt alone: what the code does.
C9_RowHalts ==
    (SampleWiseShown /\ SelectedRow.json.kind \in {"nan", "malformed"}) =>
        /\ ShowsKind("error")
        /\ ~ShowsKind("table")
        /\ ~ShowsKind("image")

\* C10: the image source is image_url of the JSON when present, otherwise
\* the non-empty value of the fallback column; when neither exists the row
\* is reported with a "could not find image source" error and no image
\* panel is rendered.
C10_ImageSourceOrder ==
    (SampleWiseShown /\ SelectedRow.json.kind = "doc") =>
        LET doc == SelectedRow.json
        IN /\ HasImageUrl(doc) => img_src = doc.image_url
           /\ (~HasImageUrl(doc) /\ HasColumnSource(df.has_img, SelectedRow))
              => img_src = SelectedRow.img
           /\ (~HasImageUrl(doc) /\ ~HasColumnSource(df.has_img, SelectedRow))
              => /\ img_src = None
                 /\ Shows("error", "could_not_find_image_source")
                 /\ ~ShowsKind("image")

\* C10, the order and the missing panel alone: what the code does.
C10_OrderAndNoPanel ==
    (SampleWiseShown /\ SelectedRow.json.kind = "doc") =>
        LET doc == SelectedRow.json
        IN /\ HasImageUrl(doc) => img_src = doc.image_url
           /\ (~HasImageUrl(doc) /\ HasColumnSource(df.has_img, SelectedRow))
              => img_src = SelectedRow.img
           /\ (~HasImageUrl(doc) /\ ~HasColumnSource(df.has_img, SelectedRow))
              => /\ img_src = None
                 /\ Shows("error", "error_processing_csv_file")
                 /\ ~ShowsKind("image")

\* a file with its JSON column is loaded: the runs reach the sample selection
CursorInUse == df.loaded /\ df.has_json

\* the last run displayed a row
RowDisplayed == Shows("header", "displaying_row")

\* C12: after any sequence of uploads, Previous clicks, Next clicks and row
\* selections the session cursor is a valid position in the loaded dataset:
\* 0 <= selected_index <= number of rows - 1.
C12_CursorValid ==
    CursorInUse => (0 <= selected_index /\ selected_index <= Len(df.rows) - 1)

\* C12 for the runs that display a row: the cursor they display is a valid
\* position, and it is the row the page names.
C12_DisplayedCursorValid ==
    (CursorInUse /\ RowDisplayed) =>
        /\ 0 <= selected_index /\ selected_index <= Len(df.rows) - 1
        /\ \E i \in 1..Len(ui) :
                ui[i] = El("header", "displaying_row", selected_index)

\* C12, the ends: Previous at the first row and Next at the last row leave
\* the cursor unchanged.
C12_EndsUnchanged ==
    [][/\ (/\ CursorInUse /\ selected_index = 0
           /\ Run(df, "previous", -1, benchmarking_mode, validation_threshold))
          => selected_index' = 0
       /\ (/\ CursorInUse /\ selected_index = Len(df.rows) - 1
           /\ Run(df, "next", -1, benchmarking_mode, validation_threshold))
          => selected_index' = selected_index]_vars

\* the cursor left behind by a longer file: no row is displayed
C12_StaleCursor ==
    /\ CursorInUse
    /\ selected_index > Len(df.rows) - 1
    /\ ~RowDisplayed
    /\ Shows("error", "error_processing_csv_file")

====
